---- MODULE Spec2Model ----
(***************************************************************************)
(* The ingestion / alerting pipeline of taschenkrebs.py: fetch_and_append  *)
(* reads the unread messages of the mailbox oldest first, filters every    *)
(* CSV attachment against the home positions, sends drift and missing-     *)
(* transmission alerts, writes alerted.json, appends the rows to the       *)
(* master CSV and labels the message.                                      *)
(*                                                                         *)
(* Positions lie on the home meridian; a latitude is an integer number of  *)
(* 1e-4 degrees, a distance an integer number of millimetres. Timestamps   *)
(* are small integers.                                                     *)
(***************************************************************************)
EXTENDS Integers, Sequences, FiniteSets, TLC

VARIABLES
    inbox,          \* the mailbox: sequence of messages, index = message id
    master,         \* MASTER_CSV: [exists, header, rows]
    alertLog,       \* ALERT_LOG_FILE: [ok, keys]
    latest,         \* latest_positions.csv: [exists, rows, marked]
    pc,             \* position of the run inside fetch_and_append
    alerted,        \* keys of the dict alerted (in memory)
    seen_ids,       \* seen_ids
    dated,          \* message ids still to process, oldest first
    msg_id,         \* id of the message being processed (0: none)
    part,           \* index of the attachment being processed
    df,             \* the attachment's rows after the activation filter
    merged,         \* rows of merged still to visit in the drift loop
    missing,        \* home_ids - current_ids still to visit
    processed,      \* processed
    any_processed,  \* any_processed
    sent,           \* history: notifications delivered, in order
    failed,         \* history: notifications whose delivery failed
    aborts,         \* history: number of injected failures and crashes
    exit,           \* history: how the last run ended ("none", "ok", "error")
    batch           \* history: the start of the current attachment's processing

vars == <<inbox, master, alertLog, latest, pc, alerted, seen_ids, dated,
          msg_id, part,
          df, merged, missing, processed, any_processed, sent, failed,
          aborts, exit, batch>>

disk == <<inbox, master, alertLog, latest>>
local == <<alerted, seen_ids, dated, msg_id, part, df, merged, missing,
           processed, any_processed>>
history == <<sent, failed, aborts, exit, batch>>

-----------------------------------------------------------------------------
(* Bounds *)

MaxMsgs == 2        \* messages delivered to the mailbox over a behaviour
MaxAborts == 1      \* failures and crashes over a behaviour

-----------------------------------------------------------------------------
(* Configuration and reference data *)

ALERT_THRESHOLD == 50000     \* 50.0 m, in millimetres

HomeOrder == <<"D1", "D2">>  \* the rows of home_positions.csv, in file order

load_home_positions ==
    [b \in {"D1", "D2"} |-> [lat_home |-> 540000, date_UTC |-> 1]]

home == load_home_positions

Abs(x) == IF x < 0 THEN -x ELSE x

\* On a meridian the haversine formula reduces to R * |dphi|:
\* 6371000 m * pi / 180 * 1e-4 = 11.119 m for every 1e-4 degree.
haversine(lat1, lat2) == 11119 * Abs(lat2 - lat1)

-----------------------------------------------------------------------------
(* Inputs: the rows an attachment may hold, and the attachments of a message *)

Row(b, t, lat) ==
    [D_number |-> b, date_UTC |-> t, Latitude |-> lat, batteryState |-> "GOOD"]

RowB(b, t, lat, bat) ==
    [D_number |-> b, date_UTC |-> t, Latitude |-> lat, batteryState |-> bat]

BadDate == 0    \* stands for a date_UTC text that is no date

\* read_csv leaves date_UTC a column of strings when a value does not parse
\* (or raises when the column is absent): the comparison with the activation
\* times raises.
Malformed(raw) == \E i \in 1..Len(raw) : raw[i].date_UTC = BadDate

RawRows ==
    { Row("D1", 2, 540000),     \* D1 at home
      Row("D1", 3, 540005),     \* D1 55.6 m north of home
      Row("D2", 2, 540000) }    \* D2 at home

\* An attachment holds one row, or two different rows in either order.
RawBatches ==
    { <<r>> : r \in RawRows }
        \cup { <<p[1], p[2]>> : p \in { q \in RawRows \X RawRows : q[1] # q[2] } }

\* The CSV attachments of a message: none, or one.
PartLists == {<<>>} \cup { <<raw>> : raw \in RawBatches }

-----------------------------------------------------------------------------
(* Sequence helpers *)

IsPrefix(s, t) == Len(s) <= Len(t) /\ SubSeq(t, 1, Len(s)) = s

Ids(rows) == { rows[i].D_number : i \in 1..Len(rows) }

-----------------------------------------------------------------------------
(* The pure steps of fetch_and_append *)

\* df.loc[df['date_UTC'] > activation_times]: a row of a buoy without a home
\* entry maps to NaT and compares False.
\* (Faulty variant: a row stamped at the activation time is kept.)
RECURSIVE ActivationFilter_Inclusive(_)
ActivationFilter_Inclusive(rows) ==
    IF rows = <<>> THEN <<>>
    ELSE LET r == Head(rows)
             keep == /\ r.D_number \in DOMAIN home
                     /\ r.date_UTC >= home[r.D_number].date_UTC
         IN  (IF keep THEN <<r>> ELSE <<>>)
             \o ActivationFilter_Inclusive(Tail(rows))

RECURSIVE ActivationFilter(_)
ActivationFilter(rows) ==
    IF rows = <<>> THEN <<>>
    ELSE LET r == Head(rows)
             keep == /\ r.D_number \in DOMAIN home
                     /\ r.date_UTC > home[r.D_number].date_UTC
         IN  (IF keep THEN <<r>> ELSE <<>>) \o ActivationFilter(Tail(rows))

\* sort_values('date_UTC'): rows in ascending timestamp, rows of equal
\* timestamp in their order of appearance.
RECURSIVE InsertByDate(_, _)
InsertByDate(r, sorted) ==
    IF sorted = <<>> THEN <<r>>
    ELSE IF r.date_UTC < Head(sorted).date_UTC
         THEN <<r>> \o sorted
         ELSE <<Head(sorted)>> \o InsertByDate(r, Tail(sorted))

RECURSIVE sort_values(_)
sort_values(rows) ==
    IF rows = <<>> THEN <<>>
    ELSE InsertByDate(rows[Len(rows)],
                      sort_values(SubSeq(rows, 1, Len(rows) - 1)))

\* groupby('D_number').last(): the last row of buoy b in rows.
GroupLast(rows, b) ==
    LET idx == { i \in 1..Len(rows) : rows[i].D_number = b }
        last == CHOOSE i \in idx : \A j \in idx : j <= i
    IN  rows[last]

\* current: the position of every buoy of the filtered attachment at its
\* latest timestamp.
current(rows) ==
    [b \in Ids(rows) |-> GroupLast(sort_values(rows), b).Latitude]

\* merged = home.join(current, how='inner'): the buoys that have a home
\* position and a current position, in the order of home.
RECURSIVE JoinInner(_, _)
JoinInner(order, cur) ==
    IF order = <<>> THEN <<>>
    ELSE (IF Head(order) \in DOMAIN cur THEN <<Head(order)>> ELSE <<>>)
         \o JoinInner(Tail(order), cur)

Dist(b, rows) == haversine(home[b].lat_home, current(rows)[b])

\* if dist > ALERT_THRESHOLD and buoy not in alerted
DriftAlertDue(b, rows, al) == Dist(b, rows) > ALERT_THRESHOLD /\ b \notin al

\* home_ids - current_ids
MissingIds(rows) == DOMAIN home \ DOMAIN current(rows)

\* if buoy not in alerted
SilenceAlertDue(b, al) == b \notin al

\* seen_ids.update(df['D_number'].tolist()), before the activation filter
\* (Faulty variant: the ids are taken behind the filter.)
SeenAfter_Filtered(seen, raw) == seen \cup Ids(ActivationFilter(raw))

SeenAfter(seen, raw) == seen \cup Ids(raw)

-----------------------------------------------------------------------------
(* latest_positions.csv *)

Null == ""      \* an empty field of the CSV: NaN after read_csv

NaN == -1       \* a distance computed from a missing home position

\* groupby sorts the groups by their key.
IdOrder == <<"D1", "D2", "D9">>

\* GroupBy.last() takes, column by column, the last value of the group that
\* is not null: the batteryState of the last row of b that has one.
LastBattery(rows, b) ==
    LET idx == { i \in 1..Len(rows) :
                    rows[i].D_number = b /\ rows[i].batteryState # Null }
    IN  IF idx = {} THEN Null
        ELSE rows[CHOOSE i \in idx : \A j \in idx : j <= i].batteryState

\* master.sort_values('date_UTC').groupby('D_number', as_index=False).last()
\* for buoy b, the columns of the view selected.
LatestOf(rows, b) ==
    LET sorted == sort_values(rows)
        last   == GroupLast(sorted, b)
    IN  [D_number     |-> b,
         Latitude     |-> last.Latitude,
         date_UTC     |-> last.date_UTC,
         batteryState |-> LastBattery(sorted, b)]

\* latest.merge(home, on='D_number', how='left') and the distance column:
\* a buoy without home position keeps its row, its distance is NaN.
WithDistance(r) ==
    [D_number     |-> r.D_number,
     Latitude     |-> r.Latitude,
     date_UTC     |-> r.date_UTC,
     batteryState |-> r.batteryState,
     distance_m   |-> IF r.D_number \in DOMAIN home
                        THEN haversine(home[r.D_number].lat_home, r.Latitude)
                        ELSE NaN]

\* missing = set(home.index) - seen_ids
\* (Faulty variant: every buoy of home counts as missing.)
MissingInView_All(seen) == DOMAIN home

MissingInView(seen) == DOMAIN home \ seen

\* latest.loc[latest['D_number']==buoy, 'batteryState'] = 'UNKNOWN'
Override(r, seen) ==
    IF r.D_number \in MissingInView(seen)
      THEN [r EXCEPT !.batteryState = "UNKNOWN"]
      ELSE r

RECURSIVE ViewRows(_, _, _)
ViewRows(order, rows, seen) ==
    IF order = <<>> THEN <<>>
    ELSE (IF Head(order) \in Ids(rows)
            THEN <<Override(WithDistance(LatestOf(rows, Head(order))), seen)>>
            ELSE <<>>)
         \o ViewRows(Tail(order), rows, seen)

\* latest.to_csv(latest_positions.csv): the file is replaced.
to_latest_csv(rows, seen) ==
    [exists |-> TRUE,
     rows   |-> ViewRows(IdOrder, rows, seen),
     marked |-> MissingInView(seen) \cap Ids(rows)]

-----------------------------------------------------------------------------
(* The files and the mailbox *)

\* if os.path.exists(MASTER_CSV): the alerts are computed only then.
AlertsEvaluated(m) == m.exists

\* pd.read_csv(MASTER_CSV) raises EmptyDataError on a file without header.
HistReadable(m) == m.header

\* df.to_csv(MASTER_CSV, mode='a', header=write_hdr): the rows go behind the
\* rows of the file; the header is written when the file is new or empty.
\* (Faulty variant: mode='w', the file is replaced by the attachment's rows.)
to_csv_Overwrite(m, rows) ==
    [exists |-> TRUE, header |-> TRUE, rows |-> rows]

to_csv(m, rows) ==
    [exists |-> TRUE, header |-> TRUE, rows |-> m.rows \o rows]

\* to_csv cut short: the file has been opened for appending and k rows of the
\* attachment have reached it.
to_csv_partial(m, rows, k, h) ==
    [exists |-> TRUE,
     header |-> m.header \/ h \/ k > 0,
     rows   |-> m.rows \o SubSeq(rows, 1, k)]

\* json.dump(alerted, f)
\* (Faulty variant: an empty dict is written.)
json_dump_Empty(al) == [ok |-> TRUE, keys |-> {}]

json_dump(al) == [ok |-> TRUE, keys |-> al]

\* open(ALERT_LOG_FILE, 'w') has truncated the file, the dump is incomplete:
\* json.load raises on it.
json_dump_partial == [ok |-> FALSE, keys |-> {}]

\* alerted = json.load(f) if the file exists, else {}
\* (Faulty variant: the file is not read, every run starts from {}.)
LoadAlerted_NotLoaded(log) == {}

LoadAlerted(log) == log.keys

\* alerted[buoy] = datetime.now().isoformat()
AfterAlert(al, b) == al \cup {b}

\* The drift branch of one row of merged: the dict gains the buoy when the
\* alert is sent and is left alone otherwise.
\* (Faulty variant: a buoy found within the threshold is deleted.)
AlertedAfterDrift_Clearing(al, b, rows) ==
    IF DriftAlertDue(b, rows, al) THEN AfterAlert(al, b)
    ELSE IF Dist(b, rows) > ALERT_THRESHOLD THEN al ELSE al \ {b}

AlertedAfterDrift(al, b, rows) ==
    IF DriftAlertDue(b, rows, al) THEN AfterAlert(al, b) ELSE al

\* q = 'is:unread ...': the ids of the unread messages.
Unread(box) == { i \in 1..Len(box) : box[i].unread }

\* dated.sort(key=internalDate), from the ids in the order of the listing
\* (newest first).
RECURSIVE InsertByInternalDate(_, _, _)
InsertByInternalDate(i, sorted, box) ==
    IF sorted = <<>> THEN <<i>>
    ELSE IF box[i].internalDate < box[Head(sorted)].internalDate
         THEN <<i>> \o sorted
         ELSE <<Head(sorted)>> \o InsertByInternalDate(i, Tail(sorted), box)

RECURSIVE Listing(_, _)
Listing(ids, n) ==
    IF n = 0 THEN <<>>
    ELSE (IF n \in ids THEN <<n>> ELSE <<>>) \o Listing(ids, n - 1)

RECURSIVE SortDated(_, _)
SortDated(items, box) ==
    IF items = <<>> THEN <<>>
    ELSE InsertByInternalDate(items[Len(items)],
                              SortDated(SubSeq(items, 1, Len(items) - 1), box),
                              box)

\* if processed: the message is marked only when an attachment was appended.
\* (Faulty variant: every message is marked.)
MarkDue_Always(p) == TRUE

MarkDue(p) == p

NoBatch == [msg |-> 0, part |-> 0, alerted0 |-> {}, evaluated |-> FALSE,
            from |-> 0, rows0 |-> <<>>]

-----------------------------------------------------------------------------
(* Initial state: nothing delivered, no alert log; the master CSV does not *)
(* exist yet, or exists with its header and no row (what appending an      *)
(* attachment of which the filter keeps no row leaves in a new file).      *)

NoLatest == [exists |-> FALSE, rows |-> <<>>, marked |-> {}]

NoMaster == [exists |-> FALSE, header |-> FALSE, rows |-> <<>>]

Init ==
    /\ inbox = <<>>
    /\ master \in {NoMaster, to_csv(NoMaster, <<>>)}
    /\ alertLog = [ok |-> TRUE, keys |-> {}]
    /\ latest = NoLatest
    /\ pc = "idle"
    /\ alerted = {}
    /\ seen_ids = {}
    /\ dated = <<>>
    /\ msg_id = 0
    /\ part = 0
    /\ df = <<>>
    /\ merged = <<>>
    /\ missing = {}
    /\ processed = FALSE
    /\ any_processed = FALSE
    /\ sent = <<>>
    /\ failed = <<>>
    /\ aborts = 0
    /\ exit = "none"
    /\ batch = NoBatch

\* The process ends: its memory is gone.
EndRun(status) ==
    /\ pc' = "idle"
    /\ alerted' = {}
    /\ seen_ids' = {}
    /\ dated' = <<>>
    /\ msg_id' = 0
    /\ part' = 0
    /\ df' = <<>>
    /\ merged' = <<>>
    /\ missing' = {}
    /\ processed' = FALSE
    /\ any_processed' = FALSE
    /\ batch' = NoBatch
    /\ exit' = status

-----------------------------------------------------------------------------
(* The environment *)

\* A message arrives in the mailbox, unread, with a later internalDate than
\* the messages before it.
Deliver ==
    /\ pc = "idle"
    /\ Len(inbox) < MaxMsgs
    /\ \E pl \in PartLists :
          inbox' = Append(inbox, [internalDate |-> Len(inbox) + 1,
                                  parts        |-> pl,
                                  unread       |-> TRUE,
                                  labelled     |-> FALSE])
    /\ UNCHANGED <<master, alertLog, latest, pc, local, history>>

\* The process is killed, or a call other than the ones below raises: the
\* exception leaves fetch_and_append and __main__ exits with status 1.
Crash ==
    /\ pc # "idle"
    /\ aborts < MaxAborts
    /\ aborts' = aborts + 1
    /\ EndRun("error")
    /\ UNCHANGED <<disk, sent, failed>>

-----------------------------------------------------------------------------
(* One run of fetch_and_append *)

\* Load alerted.json, list the unread messages, sort them oldest first.
StartRun ==
    /\ pc = "idle"
    /\ IF ~alertLog.ok
         THEN \* json.load raises
              /\ exit' = "error"
              /\ UNCHANGED <<pc, local, batch>>
         ELSE IF Unread(inbox) = {}
         THEN \* "No new messages."
              /\ exit' = "ok"
              /\ UNCHANGED <<pc, local, batch>>
         ELSE /\ alerted' = LoadAlerted(alertLog)
              /\ dated' = SortDated(Listing(Unread(inbox), Len(inbox)), inbox)
              /\ seen_ids' = {}
              /\ any_processed' = FALSE
              /\ pc' = "next"
              /\ UNCHANGED <<msg_id, part, df, merged, missing, processed,
                             exit, batch>>
    /\ UNCHANGED <<disk, sent, failed, aborts>>

\* for entry in dated: fetch the next message; after the last one the view
\* is rebuilt if a message was processed.
NextMessage ==
    /\ pc = "next"
    /\ IF dated # <<>>
         THEN /\ msg_id' = Head(dated)
              /\ dated' = Tail(dated)
              /\ part' = 1
              /\ processed' = FALSE
              /\ pc' = "part"
              /\ UNCHANGED <<alerted, seen_ids, df, merged, missing,
                             any_processed, exit, batch>>
         ELSE IF any_processed
         THEN /\ pc' = "view"
              /\ UNCHANGED <<local, exit, batch>>
         ELSE EndRun("ok")
    /\ UNCHANGED <<disk, sent, failed, aborts>>

\* for part in parts: read and filter the next CSV attachment and set up the
\* alert loops; behind the last attachment go on to the labels.
NextPart ==
    /\ pc = "part"
    /\ IF part <= Len(inbox[msg_id].parts)
         THEN LET raw  == inbox[msg_id].parts[part]
                  rows == ActivationFilter(raw)
              IN  IF \/ Malformed(raw)
                     \/ AlertsEvaluated(master) /\ ~HistReadable(master)
                    THEN EndRun("error")
                    ELSE /\ seen_ids' = SeenAfter(seen_ids, raw)
                         /\ df' = rows
                         /\ batch' = [msg       |-> msg_id,
                                      part      |-> part,
                                      alerted0  |-> alerted,
                                      evaluated |-> AlertsEvaluated(master),
                                      from      |-> Len(sent),
                                      rows0     |-> master.rows]
                         /\ IF AlertsEvaluated(master)
                              THEN /\ merged' = JoinInner(HomeOrder, current(rows))
                                   /\ missing' = MissingIds(rows)
                                   /\ pc' = "drift"
                              ELSE /\ pc' = "persist"
                                   /\ UNCHANGED <<merged, missing>>
                         /\ UNCHANGED <<alerted, dated, msg_id, part, processed,
                                        any_processed, exit>>
         ELSE /\ pc' = IF MarkDue(processed) THEN "mark" ELSE "next"
              /\ UNCHANGED <<local, exit, batch>>
    /\ UNCHANGED <<disk, sent, failed, aborts>>

Notification(b, kind) ==
    [buoy |-> b, kind |-> kind, msg |-> msg_id, part |-> part]

\* for buoy, row in merged.iterrows(): one row of the drift loop, the
\* notification delivered.
DriftStep ==
    /\ pc = "drift"
    /\ IF merged # <<>>
         THEN LET b == Head(merged)
              IN  /\ merged' = Tail(merged)
                  /\ sent' = IF DriftAlertDue(b, df, alerted)
                               THEN Append(sent, Notification(b, "drift"))
                               ELSE sent
                  /\ alerted' = AlertedAfterDrift(alerted, b, df)
                  /\ UNCHANGED pc
         ELSE /\ pc' = "silence"
              /\ UNCHANGED <<merged, sent, alerted>>
    /\ UNCHANGED <<disk, seen_ids, dated, msg_id, part, df, missing, processed,
                   any_processed, failed, aborts, exit, batch>>

\* send_notification raises in the drift loop.
DriftSendFails ==
    /\ pc = "drift"
    /\ merged # <<>>
    /\ DriftAlertDue(Head(merged), df, alerted)
    /\ aborts < MaxAborts
    /\ aborts' = aborts + 1
    /\ failed' = Append(failed, Notification(Head(merged), "drift"))
    /\ EndRun("error")
    /\ UNCHANGED <<disk, sent>>

\* for buoy in home_ids - current_ids: one buoy of the loop, in the order
\* the set yields, the notification delivered.
SilenceStep ==
    /\ pc = "silence"
    /\ IF missing # {}
         THEN \E b \in missing :
                  /\ missing' = missing \ {b}
                  /\ IF SilenceAlertDue(b, alerted)
                       THEN /\ sent' = Append(sent, Notification(b, "silence"))
                            /\ alerted' = AfterAlert(alerted, b)
                       ELSE UNCHANGED <<sent, alerted>>
                  /\ UNCHANGED pc
         ELSE /\ pc' = "persist"
              /\ UNCHANGED <<missing, sent, alerted>>
    /\ UNCHANGED <<disk, seen_ids, dated, msg_id, part, df, merged, processed,
                   any_processed, failed, aborts, exit, batch>>

\* send_notification raises in the missing-transmission loop.
SilenceSendFails ==
    /\ pc = "silence"
    /\ aborts < MaxAborts
    /\ \E b \in missing :
          /\ SilenceAlertDue(b, alerted)
          /\ failed' = Append(failed, Notification(b, "silence"))
    /\ aborts' = aborts + 1
    /\ EndRun("error")
    /\ UNCHANGED <<disk, sent>>

\* with open(ALERT_LOG_FILE, 'w') as f: json.dump(alerted, f, indent=2)
Persist ==
    /\ pc = "persist"
    /\ alertLog' = json_dump(alerted)
    /\ pc' = "append"
    /\ UNCHANGED <<inbox, master, latest, local, history>>

\* The dump is cut short.
PersistInterrupted ==
    /\ pc = "persist"
    /\ aborts < MaxAborts
    /\ aborts' = aborts + 1
    /\ alertLog' = json_dump_partial
    /\ EndRun("error")
    /\ UNCHANGED <<inbox, master, latest, sent, failed>>

\* df.to_csv(MASTER_CSV, mode='a', ...); processed = True
AppendRows ==
    /\ pc = "append"
    /\ master' = to_csv(master, df)
    /\ processed' = TRUE
    /\ part' = part + 1
    /\ pc' = "part"
    /\ UNCHANGED <<inbox, alertLog, latest, alerted, seen_ids, dated, msg_id, df,
                   merged, missing, any_processed, history>>

\* to_csv is cut short behind k rows of the attachment.
AppendInterrupted ==
    /\ pc = "append"
    /\ aborts < MaxAborts
    /\ aborts' = aborts + 1
    /\ \E k \in 0..Len(df), h \in BOOLEAN :
          /\ k < Len(df) \/ (k = 0 /\ ~master.header)
          /\ master' = to_csv_partial(master, df, k, h)
    /\ EndRun("error")
    /\ UNCHANGED <<inbox, alertLog, latest, sent, failed>>

\* modify(removeLabelIds: UNREAD); modify(addLabelIds: label_id);
\* any_processed = True
Mark ==
    /\ pc = "mark"
    /\ IF inbox[msg_id].unread
         THEN /\ inbox' = [inbox EXCEPT ![msg_id].unread = FALSE]
              /\ UNCHANGED <<pc, any_processed>>
         ELSE /\ inbox' = [inbox EXCEPT ![msg_id].labelled = TRUE]
              /\ any_processed' = TRUE
              /\ pc' = "next"
    /\ UNCHANGED <<master, alertLog, latest, alerted, seen_ids, dated, msg_id, part,
                   df, merged, missing, processed, history>>

\* if any_processed: the map is drawn (generate_map, outside this model: a
\* failure of it is a Crash) and latest_positions.csv is rebuilt from the
\* master CSV, which is read and not written.
BuildView ==
    /\ pc = "view"
    /\ latest' = to_latest_csv(master.rows, seen_ids)
    /\ EndRun("ok")
    /\ UNCHANGED <<inbox, master, alertLog, sent, failed, aborts>>

Next ==
    \/ Deliver
    \/ StartRun
    \/ NextMessage
    \/ NextPart
    \/ DriftStep
    \/ DriftSendFails
    \/ SilenceStep
    \/ SilenceSendFails
    \/ Persist
    \/ PersistInterrupted
    \/ AppendRows
    \/ AppendInterrupted
    \/ Mark
    \/ BuildView
    \/ Crash

Spec == Init /\ [][Next]_vars

-----------------------------------------------------------------------------
(* One run over two unread messages, the older one with an attachment of   *)
(* the wider kind: rows stamped at the activation time, rows of a buoy     *)
(* without home position, rows whose date does not parse.  The master CSV  *)
(* is absent, empty, or holds a record of D1 from an earlier run.          *)

MaxRawRows == 2     \* rows of the older message's attachment

WideRows ==
    RawRows \cup { Row("D1", 1, 540005),    \* D1 at its activation time
                   Row("D9", 2, 540000),    \* a buoy not in home_positions.csv
                   Row("D2", BadDate, 540000) }

WideBatches == UNION { [1..n -> WideRows] : n \in 0..MaxRawRows }

Message(date, pl) ==
    [internalDate |-> date, parts |-> pl, unread |-> TRUE, labelled |-> FALSE]

InitWide ==
    /\ \E raw \in WideBatches, pl \in PartLists :
          inbox = <<Message(1, <<raw>>), Message(2, pl)>>
    /\ master \in {NoMaster, to_csv(NoMaster, <<>>),
                   to_csv(NoMaster, <<Row("D1", 2, 540000)>>)}
    /\ alertLog = [ok |-> TRUE, keys |-> {}]
    /\ latest = NoLatest
    /\ pc = "idle"
    /\ alerted = {}
    /\ seen_ids = {}
    /\ dated = <<>>
    /\ msg_id = 0
    /\ part = 0
    /\ df = <<>>
    /\ merged = <<>>
    /\ missing = {}
    /\ processed = FALSE
    /\ any_processed = FALSE
    /\ sent = <<>>
    /\ failed = <<>>
    /\ aborts = 0
    /\ exit = "none"
    /\ batch = NoBatch

NextWide ==
    \/ StartRun
    \/ NextMessage
    \/ NextPart
    \/ DriftStep
    \/ DriftSendFails
    \/ SilenceStep
    \/ SilenceSendFails
    \/ Persist
    \/ PersistInterrupted
    \/ AppendRows
    \/ AppendInterrupted
    \/ Mark
    \/ BuildView
    \/ Crash

SpecWide == InitWide /\ [][NextWide]_vars

-----------------------------------------------------------------------------
(* The view step alone, over the contents the master CSV may have: rows of *)
(* the known buoys with or without a battery state, and rows of a buoy     *)
(* whose home position was taken out of home_positions.csv after they were *)
(* stored.                                                                 *)

MaxStoreRows == 3   \* rows of the master CSV

StoreRows ==
    { RowB("D1", t[1], t[2], t[3]) :
          t \in {2, 3} \X {540000, 540005} \X {"GOOD", "LOW", Null} }
        \cup { RowB("D2", 2, 540000, "GOOD"), RowB("D9", 2, 540000, "GOOD") }

StoreContents == UNION { [1..n -> StoreRows] : n \in 0..MaxStoreRows }

InitView ==
    /\ inbox = <<>>
    /\ \E rows \in StoreContents : master = to_csv(NoMaster, rows)
    /\ alertLog = [ok |-> TRUE, keys |-> {}]
    /\ latest = NoLatest
    /\ pc = "view"
    /\ alerted = {}
    /\ seen_ids \in SUBSET {"D1", "D2", "D9"}
    /\ dated = <<>>
    /\ msg_id = 0
    /\ part = 0
    /\ df = <<>>
    /\ merged = <<>>
    /\ missing = {}
    /\ processed = FALSE
    /\ any_processed = TRUE
    /\ sent = <<>>
    /\ failed = <<>>
    /\ aborts = 0
    /\ exit = "none"
    /\ batch = NoBatch

NextView == BuildView

SpecView == InitView /\ [][NextView]_vars

TypeOK ==
    /\ pc \in {"idle", "next", "part", "drift", "silence", "persist", "append",
               "mark", "view"}
    /\ alerted \subseteq DOMAIN home
    /\ alertLog.keys \subseteq DOMAIN home
    /\ aborts \in 0..MaxAborts

-----------------------------------------------------------------------------
(* Vocabulary of the properties *)

Known == DOMAIN home

\* The attachment being processed, as received.
RawBatch == inbox[batch.msg].parts[batch.part]

\* The rows of buoy b in rows that carry b's latest timestamp.
LatestRows(rows, b) ==
    { r \in { rows[i] : i \in 1..Len(rows) } :
         /\ r.D_number = b
         /\ \A i \in 1..Len(rows) :
               rows[i].D_number = b => rows[i].date_UTC <= r.date_UTC }

FarFromHome(r) ==
    haversine(home[r.D_number].lat_home, r.Latitude) > ALERT_THRESHOLD

\* Buoy b reports in rows, and its latest position is beyond the threshold.
LatestFar(rows, b) ==
    /\ b \in Ids(rows)
    /\ \A r \in LatestRows(rows, b) : FarFromHome(r)

\* Buoy b reports in rows, and its latest position is within the threshold.
LatestNear(rows, b) ==
    /\ b \in Ids(rows)
    /\ \A r \in LatestRows(rows, b) : ~FarFromHome(r)

\* The notifications of the given kind delivered for b while the current
\* attachment was processed.
BatchSent(b, kind) ==
    { i \in (batch.from + 1)..Len(sent) :
         sent[i].buoy = b /\ sent[i].kind = kind }

\* The alert loops of the current attachment are behind the run.
AlertsDone == pc \in {"persist", "append"}

\* The step delivers a notification for b, or fails to deliver one.
Notifies(b) ==
    \/ Len(sent') > Len(sent) /\ sent'[Len(sent')].buoy = b
    \/ Len(failed') > Len(failed) /\ failed'[Len(failed')].buoy = b

\* b is in AlertState: a key of alerted.json, or of the dict of the run.
InAlertState(b) == b \in alertLog.keys \/ b \in alerted

-----------------------------------------------------------------------------
C2_DriftAlertOnCrossing ==
    AlertsDone =>
        \A b \in Known :
            (b \notin batch.alerted0 /\ LatestFar(RawBatch, b)) =>
                /\ Cardinality(BatchSent(b, "drift")) = 1
                /\ b \in alerted

(* C3: when the alert loops of an attachment are done, every known buoy    *)
(* that was not in AlertState and does not report in the attachment has    *)
(* got exactly one silence notification and is in AlertState; a buoy that  *)
(* was in AlertState has got none.                                         *)
C3_SilenceAlertOnAbsence ==
    AlertsDone =>
        \A b \in Known :
            /\ (b \notin batch.alerted0 /\ b \notin Ids(RawBatch)) =>
                  /\ Cardinality(BatchSent(b, "silence")) = 1
                  /\ b \in alerted
            /\ b \in batch.alerted0 => BatchSent(b, "silence") = {}

\* The alert log of the current attachment has been written.
BatchPersisted ==
    batch.msg # 0 /\ pc \in {"append", "part", "mark", "next", "view"}

\* An earlier message brought b a notification of the given kind.
NotifiedBefore(b, kind) ==
    \E i \in 1..Len(sent) :
        sent[i].buoy = b /\ sent[i].kind = kind /\ sent[i].msg < batch.msg

BatchCommitted ==
    /\ batch.msg = msg_id
    /\ Len(inbox[msg_id].parts) >= 1
    /\ master.exists /\ master.header
    /\ master.rows = batch.rows0 \o df
    /\ alertLog.ok /\ alertLog.keys = alerted

(* C6: a message loses UNREAD, or gains the label, only in a step of the   *)
(* run that has written alerted.json and appended the message's rows; and  *)
(* a run that ends in the write of alerted.json or in the append leaves    *)
(* the message unread.                                                     *)
C6_MarkedOnlyAfterCommit ==
    [][/\ \A m \in 1..Len(inbox) :
             (\/ inbox[m].unread /\ ~inbox'[m].unread
              \/ ~inbox[m].labelled /\ inbox'[m].labelled) =>
                 m = msg_id /\ BatchCommitted
       /\ (pc \in {"persist", "append"} /\ pc' = "idle") =>
             inbox'[msg_id].unread]_vars

\* A message with rows has lost UNREAD, its rows are in the master CSV.
C6_Witness ==
    /\ pc = "mark"
    /\ ~inbox[msg_id].unread
    /\ df # <<>>
    /\ BatchCommitted

(* C7: no buoy gets a second notification for the same attachment, however *)
(* runs are interrupted and restarted.                                     *)
C7_NoSecondNotification ==
    \A i, j \in 1..Len(sent) :
        (/\ i < j
         /\ sent[i].buoy = sent[j].buoy
         /\ sent[i].msg = sent[j].msg
         /\ sent[i].part = sent[j].part) => FALSE

(* C8: a step in which the delivery of a notification fails leaves the run *)
(* running, with the buoy in AlertState.                                   *)
C8_DeliveryFailureIsIgnored ==
    [][Len(failed') > Len(failed) =>
          /\ pc' # "idle"
          /\ exit' # "error"
          /\ failed'[Len(failed')].buoy \in alerted']_vars

(* C9: a step of the append leaves in the master CSV the rows it had, or   *)
(* these followed by all rows of the attachment.                           *)
C9_AppendIsAtomic ==
    [][pc = "append" =>
          \/ master'.rows = master.rows
          \/ master'.rows = master.rows \o df]_vars

(* C10: in every step the rows of the master CSV are a prefix of its rows  *)
(* after the step.                                                         *)
C10_AppendOnly ==
    [][IsPrefix(master.rows, master'.rows)]_vars

\* A run has ended normally after an earlier one failed, and the master CSV
\* holds the rows of more than one append.
C10_Witness ==
    /\ pc = "idle"
    /\ exit = "ok"
    /\ aborts > 0
    /\ Len(master.rows) >= 3

-----------------------------------------------------------------------------
\* The record passes the activation filter: its buoy has a home position and
\* its timestamp is behind the buoy's activation time.
Admissible(r) ==
    /\ r.D_number \in DOMAIN home
    /\ r.date_UTC > home[r.D_number].date_UTC

\* The step completes the append of the current attachment.
AppendCompletes == pc = "append" /\ pc' = "part"

(* C11: while an attachment is evaluated and appended, df is exactly the   *)
(* subsequence of its admissible records, in their order; the append adds  *)
(* exactly these to the master CSV, also when other records of the         *)
(* attachment were dropped.                                                *)
C11_FilterKeepsAdmissible ==
    [][/\ pc' \in {"drift", "silence", "persist", "append"} =>
              df' = SelectSeq(inbox'[batch'.msg].parts[batch'.part], Admissible)
       /\ AppendCompletes =>
              master'.rows = batch.rows0 \o SelectSeq(RawBatch, Admissible)]_vars

\* An attachment of two records has been appended: one record was dropped
\* (stamped at the activation time, or of a buoy without home position) and
\* the other one is the row the master CSV has gained.
C11_Witness ==
    /\ pc = "part"
    /\ processed
    /\ batch.msg = msg_id
    /\ Len(RawBatch) = 2
    /\ \E i \in 1..2 :
          /\ ~Admissible(RawBatch[i])
          /\ Admissible(RawBatch[3 - i])
          /\ master.rows = batch.rows0 \o <<RawBatch[3 - i]>>

(* C12: a step that reads an attachment with a malformed record (a date    *)
(* that does not parse) skips that attachment and leaves the run running,  *)
(* so that the remaining messages are processed.                           *)
C12_ParseErrorSkipsBatch ==
    [][(/\ pc = "part"
        /\ part <= Len(inbox[msg_id].parts)
        /\ Malformed(inbox[msg_id].parts[part])
        /\ aborts' = aborts) =>
            /\ pc' # "idle"
            /\ exit' # "error"
            /\ master' = master]_vars

\* The step is a failure of the append of the current attachment.
AppendFails == pc = "append" /\ exit' = "error"

(* C13: when the append of an attachment fails, no notification has been   *)
(* sent for that attachment and AlertState, in memory and in alerted.json, *)
(* is as it was before the attachment; the run ends and the rows appended  *)
(* before stay in the master CSV.                                          *)
C13_NoAlertingBeforeFailedAppend ==
    [][AppendFails =>
          /\ Len(sent) = batch.from
          /\ alerted = batch.alerted0
          /\ alertLog.keys = batch.alerted0
          /\ pc' = "idle"
          /\ IsPrefix(batch.rows0, master'.rows)]_vars

\* The rows of latest_positions.csv for buoy b.
ViewOf(b) ==
    { latest.rows[i] : i \in { j \in 1..Len(latest.rows) :
                                 latest.rows[j].D_number = b } }

\* The place in rows of the record of b with the greatest timestamp, the
\* last one in storage order among equals.
LastRecordAt(rows, b) ==
    CHOOSE k \in 1..Len(rows) :
        /\ rows[k].D_number = b
        /\ \A i \in 1..Len(rows) :
              rows[i].D_number = b =>
                  \/ rows[i].date_UTC < rows[k].date_UTC
                  \/ rows[i].date_UTC = rows[k].date_UTC /\ i <= k

(* C14: in latest_positions.csv every buoy with a record in the master CSV *)
(* has one row, and (unless the buoy is marked as missing) position,       *)
(* timestamp and battery state of that row are those of one stored record: *)
(* the one with the greatest timestamp, the last appended among equals.    *)
C14_LatestIsOneWholeRecord ==
    latest.exists =>
        \A b \in Ids(master.rows) :
            /\ Cardinality(ViewOf(b)) = 1
            /\ b \notin latest.marked =>
                  LET rec == master.rows[LastRecordAt(master.rows, b)]
                  IN  \A v \in ViewOf(b) :
                          /\ v.Latitude = rec.Latitude
                          /\ v.date_UTC = rec.date_UTC
                          /\ v.batteryState = rec.batteryState

\* The step writes latest_positions.csv.
ViewWritten == pc = "view" /\ exit' = "ok"

C16_ViewOnlyKnownBuoys ==
    latest.exists =>
        \A i \in 1..Len(latest.rows) : latest.rows[i].D_number \in DOMAIN home

\* The notifications delivered for buoy b in all runs.
SentFor(b) == { i \in 1..Len(sent) : sent[i].buoy = b }

\* No attachment is being processed: between two messages, or between runs
\* (also behind a crash).
BatchBoundary == pc \in {"idle", "next"}

(* C17: between attachments and between runs, also after a crash, a buoy   *)
(* is a key of alerted.json exactly if a notification has been sent for    *)
(* it: no buoy has been notified and is absent from the file.              *)
C17_PersistedKeyIffNotified ==
    BatchBoundary =>
        \A b \in Known : b \in alertLog.keys <=> SentFor(b) # {}

(* C18: the messages of a run are taken in ascending internalDate, and     *)
(* the rows of an attachment are in the master CSV before its alerts are   *)
(* evaluated; the message is marked after both.                            *)
C18_AppendBeforeAlerts ==
    /\ \A i, j \in 1..Len(dated) :
          i < j => inbox[dated[i]].internalDate <= inbox[dated[j]].internalDate
    /\ pc \in {"drift", "silence"} => master.rows = batch.rows0 \o df
    /\ pc = "mark" => master.rows = batch.rows0 \o df

(* C19: no step removes a key from alerted.json, and over all attachments  *)
(* and runs a buoy gets at most one notification, drift or silence.        *)
C19_OneNotificationEver ==
    [][/\ alertLog'.ok => alertLog.keys \subseteq alertLog'.keys
       /\ \A b \in Known : Cardinality(SentFor(b)') <= 1]_vars

\* All records of b in rows are stamped at or before b's activation time,
\* and there is at least one.
OnlyBeforeActivation(rows, b) ==
    /\ b \in Ids(rows)
    /\ \A i \in 1..Len(rows) :
          rows[i].D_number = b => rows[i].date_UTC <= home[b].date_UTC

(* C20: a known buoy outside AlertState whose records of an attachment are *)
(* all stamped at or before its activation time has, when the alert loops  *)
(* of that attachment are done and the master CSV existed, got exactly one *)
(* silence notification, and is in seen_ids all the same; when the view is *)
(* written no buoy of seen_ids is marked as missing.                       *)
C20_SilentButSeen ==
    [][/\ (AlertsDone /\ batch.evaluated) =>
              \A b \in Known :
                  (b \notin batch.alerted0 /\ OnlyBeforeActivation(RawBatch, b)) =>
                      /\ Cardinality(BatchSent(b, "silence")) = 1
                      /\ b \in seen_ids
       /\ ViewWritten =>
              /\ \A b \in Known :
                    (\E n \in 1..Len(inbox) :
                        /\ inbox[n].labelled
                        /\ \E k \in 1..Len(inbox[n].parts) :
                               b \in Ids(inbox[n].parts[k])
                        /\ aborts = 0) => b \in seen_ids
              /\ \A b \in seen_ids : b \notin latest'.marked]_vars

\* An uninterrupted run has written the view: D1, whose only record of the
\* run is stamped at its activation time, has got a silence notification
\* for that message, and its row in the view (from a record stored before)
\* is not marked as missing.
C20_Witness ==
    /\ latest.exists
    /\ exit = "ok"
    /\ aborts = 0
    /\ OnlyBeforeActivation(inbox[1].parts[1], "D1")
    /\ \A k \in 1..Len(inbox[2].parts) : "D1" \notin Ids(inbox[2].parts[k])
    /\ \E i \in 1..Len(sent) :
          sent[i].buoy = "D1" /\ sent[i].kind = "silence" /\ sent[i].msg = 1
    /\ ViewOf("D1") # {}
    /\ "D1" \notin latest.marked
    /\ \A v \in ViewOf("D1") : v.batteryState = "GOOD"

====
